---- MODULE Spec2Model ----
(***************************************************************************)
(* folly::SingletonThreadLocal<T, Tag, Make>                               *)
(* (src/folly/SingletonThreadLocal.h).                                     *)
(*                                                                         *)
(* The model follows the objects of the header:                            *)
(*   - Wrapper (lines 92-124): the T object plus the intrusive list        *)
(*     `caches` of the Nodes that cache it;                                *)
(*   - Node (lines 70-87): bound by reference to one `cache` pointer and   *)
(*     one `stale` flag, linked into a Wrapper's list by an auto_unlink    *)
(*     hook (lines 67-68);                                                 *)
(*   - get() (lines 148-155) with its `static thread_local Wrapper* cache`,*)
(*     and getSlow() (lines 138-144) with its `static thread_local`        *)
(*     check, stale and node.                                              *)
(*                                                                         *)
(* A "call site" of the documentation is a place get() is inlined into.    *)
(* How many instances of the function-local thread_locals exist for the    *)
(* call sites of a thread is decided by the build (the CHECK_EQ of line    *)
(* 140 is there for builds that do not merge them), so `build` is chosen   *)
(* in Init among the outcomes a build can produce:                         *)
(*   "merged"      one cache and one getSlow for all call sites;           *)
(*   "split_cache" one cache per call site, one getSlow for all;           *)
(*   "split_all"   one cache and one getSlow (check, stale, node) per      *)
(*                 call site (the ThreadLocal<Wrapper> stays unique:       *)
(*                 createGlobal, line 129).                                *)
(*                                                                         *)
(* Wrappers are logical objects: every `new Wrapper` gets a fresh          *)
(* identity, so that a reference into a destroyed Wrapper can be told      *)
(* from a reference to its successor.                                      *)
(***************************************************************************)
EXTENDS Integers, Sequences, FiniteSets, TLC

\* ------------------------------------------------------------- bounds
NThreads == 2
NSites == 2
MaxWrappers == 2
MaxFail == 1
MaxVal == 1

Threads == 1..NThreads
Sites == 1..NSites
Slots == 1..NSites          \* instances of get()'s `cache`, per thread
Slows == 1..NSites          \* instances of getSlow()'s statics, per thread
\* Wrapper identities: the k-th Wrapper constructed by thread t is
\* (t - 1) * MaxWrappers + k, so IdsOf(t) are the Wrappers thread t
\* constructed.
WrapperIds == 1..(NThreads * MaxWrappers)
IdsOf(t) == ((t - 1) * MaxWrappers + 1)..(t * MaxWrappers)

Null == 0                   \* nullptr (Wrapper*)
NoSlot == 0                 \* `check` before its initialisation

Builds == {"merged", "split_cache", "split_all"}

VARIABLES
  build,     \* how the build instantiated the function-local thread_locals
  tl,        \* tl[k]: the Wrapper held by ThreadLocal<Wrapper> for key k
  wst,       \* wst[w]: "unborn" | "live" | "destroyed"
  caches,    \* caches[w]: Wrapper::caches, a sequence of nodes <<t, g>>
  object,    \* object[w]: the value of Wrapper::object (T is a counter)
  cache,     \* cache[t][c]: get()'s thread_local `cache`, instance c
  check,     \* check[t][g]: getSlow()'s thread_local `check`
  stale,     \* stale[t][g]: getSlow()'s thread_local `stale`
  nodeSt,    \* nodeSt[t][g]: "unborn" | "live" | "destroyed"
  nodeSlot,  \* nodeSlot[t][g]: the `cache` instance Node::cache refers to
  made,      \* made[t]: invocations of Make on thread t
  failed,    \* failed[t]: invocations of Make on t that threw
  dtors,     \* dtors[t]: runs of object.~T() on thread t
  aborted,   \* the CHECK_EQ of line 140 failed: the process is gone
  fault,     \* some step read or wrote a destroyed Wrapper or Node
  phase,     \* phase[t]: "running" | "exiting" | "exited"
  ret        \* ret[t][s]: the reference get() last returned at site s

codeVars == <<tl, wst, caches, object, cache, check, stale, nodeSt,
              nodeSlot, made, failed, dtors, aborted, fault>>
vars == <<build, tl, wst, caches, object, cache, check, stale, nodeSt,
          nodeSlot, made, failed, dtors, aborted, fault, phase, ret>>

\* ------------------------------------------------------------- helpers
Range(seq) == {seq[i] : i \in 1..Len(seq)}

RECURSIVE Without(_, _)
Without(seq, x) ==
  IF seq = <<>> THEN <<>>
  ELSE IF Head(seq) = x THEN Without(Tail(seq), x)
       ELSE <<Head(seq)>> \o Without(Tail(seq), x)

\* The instance of get()'s `cache` that call site s uses.
cacheOf(s) == IF build = "merged" THEN 1 ELSE s
\* The instance of getSlow() that call site s calls.
slowOf(s) == IF build = "split_all" THEN s ELSE 1

\* The program state as one value, so that the code's statements compose.
St == [tl |-> tl, wst |-> wst, caches |-> caches,
       object |-> object, cache |-> cache, check |-> check, stale |-> stale,
       nodeSt |-> nodeSt, nodeSlot |-> nodeSlot, made |-> made,
       failed |-> failed, dtors |-> dtors, aborted |-> aborted,
       fault |-> fault]

Install(st) ==
  /\ tl' = st.tl
  /\ wst' = st.wst
  /\ caches' = st.caches
  /\ object' = st.object
  /\ cache' = st.cache
  /\ check' = st.check
  /\ stale' = st.stale
  /\ nodeSt' = st.nodeSt
  /\ nodeSlot' = st.nodeSlot
  /\ made' = st.made
  /\ failed' = st.failed
  /\ dtors' = st.dtors
  /\ aborted' = st.aborted
  /\ fault' = st.fault

Out(st, ref, exc) == [st |-> st, ref |-> ref, exc |-> exc]

\* A use of Wrapper w (a dereference, a list operation on w.caches).
TouchWrapper(st, w) == [st EXCEPT !.fault = @ \/ st.wst[w] # "live"]

\* ------------------------------------------------------------- Wrapper
\* The identity of the next Wrapper thread t constructs; Null when the
\* model's supply (MaxWrappers for each thread) is used up.
NewId(st, t) ==
  IF \E w \in IdsOf(t) : st.wst[w] = "unborn"
  THEN CHOOSE w \in IdsOf(t) :
         /\ st.wst[w] = "unborn"
         /\ \A v \in IdsOf(t) : st.wst[v] = "unborn" => w <= v
  ELSE Null

WrapperKeyShared(t) == 1

\* getWrapperTL(): the ThreadLocal<Wrapper> holds one Wrapper per thread.
WrapperKey(t) == t

WrapperCtorStoresFirst(st, t, ok) ==
  LET w == NewId(st, t) IN
  IF w = Null \/ (~ok /\ st.failed[t] >= MaxFail)
  THEN Out(st, Null, "capped")
  ELSE IF ok
       THEN Out([st EXCEPT !.tl[WrapperKey(t)] = w,
                           !.wst[w] = "live",
                           !.caches[w] = <<>>,
                           !.object[w] = 0,
                           !.made[t] = @ + 1],
                w, "none")
       ELSE Out([st EXCEPT !.tl[WrapperKey(t)] = w,
                           !.made[t] = @ + 1,
                           !.failed[t] = @ + 1],
                Null, "throw")

\* Wrapper::Wrapper(): Make is invoked once and its result placed in
\* `storage`; `caches` starts empty.  When Make throws nothing is
\* constructed and nothing is stored in the ThreadLocal.  ok is the
\* outcome of this invocation of Make.
WrapperCtor(st, t, ok) ==
  LET w == NewId(st, t) IN
  IF ok
  THEN IF w = Null
       THEN Out(st, Null, "capped")
       ELSE Out([st EXCEPT !.tl[WrapperKey(t)] = w,
                           !.wst[w] = "live",
                           !.caches[w] = <<>>,
                           !.object[w] = 0,
                           !.made[t] = @ + 1],
                w, "none")
  ELSE IF st.failed[t] >= MaxFail
       THEN Out(st, Null, "capped")
       ELSE Out([st EXCEPT !.made[t] = @ + 1, !.failed[t] = @ + 1],
                Null, "throw")

GetWrapperAlwaysMakes(st, t, ok) == WrapperCtor(st, t, ok)

\* getWrapper(): return *getWrapperTL();  The ThreadLocal constructs the
\* calling thread's Wrapper when the thread has none.
GetWrapper(st, t, ok) ==
  IF st.tl[WrapperKey(t)] = Null
  THEN WrapperCtor(st, t, ok)
  ELSE Out(st, st.tl[WrapperKey(t)], "none")

\* ---------------------------------------------------------------- Node
NodeClearKeepsCache(st, n) ==
  [st EXCEPT !.stale[n[1]][n[2]] = TRUE,
             !.fault = @ \/ st.nodeSt[n[1]][n[2]] # "live"]

\* Node::clear(): cache = nullptr; stale = true;  (both through the node's
\* reference members, so the node itself is read).
NodeClear(st, n) ==
  [st EXCEPT !.cache[n[1]][st.nodeSlot[n[1]][n[2]]] = Null,
             !.stale[n[1]][n[2]] = TRUE,
             !.fault = @ \/ st.nodeSt[n[1]][n[2]] # "live"]

NodeCtorNoLink(st, t, g, c, ok) ==
  LET r == GetWrapper(st, t, ok) IN
  IF r.exc # "none" THEN r
  ELSE LET w == r.ref
           s1 == TouchWrapper(r.st, w)
       IN Out([s1 EXCEPT !.nodeSt[t][g] = "live",
                         !.nodeSlot[t][g] = c,
                         !.cache[t][c] = w],
              w, "none")

\* Node::Node(cache_, stale_): binds the references, resolves the Wrapper,
\* links itself at the front of wrapper.caches and sets cache = &wrapper.
\* When getWrapper() throws, the initialisation of the thread_local node
\* is not complete: the node stays unconstructed.
NodeCtor(st, t, g, c, ok) ==
  LET r == GetWrapper(st, t, ok) IN
  IF r.exc # "none" THEN r
  ELSE LET w == r.ref
           s1 == TouchWrapper(r.st, w)
       IN Out([s1 EXCEPT !.nodeSt[t][g] = "live",
                         !.nodeSlot[t][g] = c,
                         !.caches[w] = <<<<t, g>>>> \o @,
                         !.cache[t][c] = w],
              w, "none")

AutoUnlinkNever(st, n) == st

\* ~NodeBase with link_mode<auto_unlink>: a linked hook takes itself out
\* of the list it is in (writing its neighbours, that is the list's
\* header in the Wrapper); an unlinked hook does nothing.
AutoUnlink(st, n) ==
  LET ws == {w \in WrapperIds : n \in Range(st.caches[w])} IN
  [st EXCEPT !.caches = [w \in WrapperIds |->
                           IF w \in ws THEN Without(st.caches[w], n)
                           ELSE st.caches[w]],
             !.fault = @ \/ (\E w \in ws : st.wst[w] # "live")]

NodeDtorEmptiesList(st, n) ==
  LET s1 == NodeClear(st, n)
      ws == {w \in WrapperIds : n \in Range(s1.caches[w])}
  IN [s1 EXCEPT !.caches = [w \in WrapperIds |->
                              IF w \in ws THEN <<>> ELSE s1.caches[w]],
                !.nodeSt[n[1]][n[2]] = "destroyed"]

\* ~Node(): clear(), then the base class's destructor.
NodeDtor(st, n) ==
  LET s1 == NodeClear(st, n)
      s2 == AutoUnlink(s1, n)
  IN [s2 EXCEPT !.nodeSt[n[1]][n[2]] = "destroyed"]

\* ------------------------------------------------------------ ~Wrapper
ClearNodesFirstOnly(st, nodes) ==
  IF nodes = <<>> THEN st ELSE NodeClear(st, Head(nodes))

\* for (auto& node : caches) node.clear();
RECURSIVE ClearNodes(_, _)
ClearNodes(st, nodes) ==
  IF nodes = <<>> THEN st
  ELSE ClearNodes(NodeClear(st, Head(nodes)), Tail(nodes))

\* The `cache` instances that hold &w.
PointingAt(st, w) ==
  {tc \in Threads \X Slots : st.cache[tc[1]][tc[2]] = w}

ObjectDtorSkipped(st, t, w) ==
  [st EXCEPT !.wst[w] = "destroyed", !.object[w] = 0]

\* object.~T(), after which the Wrapper's storage is gone.
ObjectDtor(st, t, w) ==
  [st EXCEPT !.wst[w] = "destroyed", !.object[w] = 0, !.dtors[t] = @ + 1]

WrapperDtorSkipsNodes(st, w) ==
  [TouchWrapper(st, w) EXCEPT !.caches[w] = <<>>]

\* The state ~Wrapper() has produced when it reaches object.~T():
\* every linked node cleared, then caches.clear().
WrapperDtorCleared(st, w) ==
  LET s1 == ClearNodes(TouchWrapper(st, w), st.caches[w])
  IN [s1 EXCEPT !.caches[w] = <<>>]

\* ~Wrapper(), run by the ThreadLocal, which then holds no Wrapper for
\* the thread.
WrapperDtor(st, t) ==
  LET w == st.tl[WrapperKey(t)]
      s2 == WrapperDtorCleared(st, w)
      s3 == ObjectDtor(s2, t, w)
  IN [s3 EXCEPT !.tl[WrapperKey(t)] = Null]

\* ------------------------------------------------------- getSlow, get
GetSlowRevalidates(st, t, s, ok) ==
  LET c == cacheOf(s)
      g == slowOf(s)
      s1 == IF st.check[t][g] = NoSlot
            THEN [st EXCEPT !.check[t][g] = c] ELSE st
  IN
  IF s1.check[t][g] # c
  THEN Out([s1 EXCEPT !.aborted = TRUE], Null, "abort")
  ELSE
    LET r1 == IF s1.nodeSt[t][g] = "unborn"
              THEN NodeCtor(s1, t, g, c, ok)
              ELSE Out(s1, Null, "none")
    IN
    IF r1.exc # "none" THEN r1
    ELSE
      LET s2 == r1.st IN
      IF s2.stale[t][g]
      THEN LET r2 == GetWrapper(s2, t, ok) IN
           IF r2.exc # "none" THEN r2
           ELSE Out([r2.st EXCEPT !.stale[t][g] = FALSE,
                                  !.cache[t][c] = r2.ref],
                    r2.ref, "none")
      ELSE
        LET s3 == [s2 EXCEPT !.fault = @ \/ s2.nodeSt[t][g] # "live"]
            nc == s3.cache[t][s3.nodeSlot[t][g]]
        IN IF nc # Null
           THEN Out(TouchWrapper(s3, nc), nc, "none")
           ELSE GetWrapper(s3, t, ok)

GetSlowIgnoresStale(st, t, s, ok) ==
  LET c == cacheOf(s)
      g == slowOf(s)
      s1 == IF st.check[t][g] = NoSlot
            THEN [st EXCEPT !.check[t][g] = c] ELSE st
  IN
  IF s1.check[t][g] # c
  THEN Out([s1 EXCEPT !.aborted = TRUE], Null, "abort")
  ELSE
    LET r1 == IF s1.nodeSt[t][g] = "unborn"
              THEN NodeCtor(s1, t, g, c, ok)
              ELSE Out(s1, Null, "none")
    IN
    IF r1.exc # "none" THEN r1
    ELSE
      LET s2 == r1.st
          s3 == [s2 EXCEPT !.fault = @ \/ s2.nodeSt[t][g] # "live"]
          nc == s3.cache[t][s3.nodeSlot[t][g]]
      IN IF nc # Null
         THEN Out(TouchWrapper(s3, nc), nc, "none")
         ELSE GetWrapper(s3, t, ok)

\* getSlow(cache), called by call site s of thread t:
\*   static thread_local Wrapper** check = &cache;   CHECK_EQ(check, &cache)
\*   static thread_local bool stale;
\*   static thread_local Node node(cache, stale);
\*   return !stale && node.cache ? *node.cache : getWrapper();
GetSlow(st, t, s, ok) ==
  LET c == cacheOf(s)
      g == slowOf(s)
      s1 == IF st.check[t][g] = NoSlot
            THEN [st EXCEPT !.check[t][g] = c] ELSE st
  IN
  IF s1.check[t][g] # c
  THEN Out([s1 EXCEPT !.aborted = TRUE], Null, "abort")
  ELSE
    LET r1 == IF s1.nodeSt[t][g] = "unborn"
              THEN NodeCtor(s1, t, g, c, ok)
              ELSE Out(s1, Null, "none")
    IN
    IF r1.exc # "none" THEN r1
    ELSE
      LET s2 == r1.st IN
      IF s2.stale[t][g]
      THEN GetWrapper(s2, t, ok)
      ELSE \* node.cache is read: the node has to be alive
        LET s3 == [s2 EXCEPT !.fault = @ \/ s2.nodeSt[t][g] # "live"]
            nc == s3.cache[t][s3.nodeSlot[t][g]]
        IN IF nc # Null
           THEN Out(TouchWrapper(s3, nc), nc, "none")
           ELSE GetWrapper(s3, t, ok)

\* get(): return cache ? *cache : getSlow(cache);
Get(st, t, s, ok) ==
  LET c == cacheOf(s) IN
  IF st.cache[t][c] # Null
  THEN Out(TouchWrapper(st, st.cache[t][c]), st.cache[t][c], "none")
  ELSE GetSlow(st, t, s, ok)

\* ------------------------------------------------------------- actions
TypeOK ==
  /\ build \in Builds
  /\ tl \in [Threads -> WrapperIds \cup {Null}]
  /\ wst \in [WrapperIds -> {"unborn", "live", "destroyed"}]
  /\ \A w \in WrapperIds : Range(caches[w]) \subseteq Threads \X Slows
  /\ object \in [WrapperIds -> 0..MaxVal]
  /\ cache \in [Threads -> [Slots -> WrapperIds \cup {Null}]]
  /\ check \in [Threads -> [Slows -> Slots \cup {NoSlot}]]
  /\ stale \in [Threads -> [Slows -> BOOLEAN]]
  /\ nodeSt \in [Threads -> [Slows -> {"unborn", "live", "destroyed"}]]
  /\ nodeSlot \in [Threads -> [Slows -> Slots \cup {NoSlot}]]
  /\ made \in [Threads -> Nat]
  /\ failed \in [Threads -> 0..MaxFail]
  /\ dtors \in [Threads -> Nat]
  /\ aborted \in BOOLEAN
  /\ fault \in BOOLEAN
  /\ phase \in [Threads -> {"running", "exiting", "exited"}]
  /\ ret \in [Threads -> [Sites -> WrapperIds \cup {Null}]]

\* The state after static initialisation: thread_locals are zero-initialised
\* (cache = nullptr, stale = false), no node and no Wrapper is constructed.
Init ==
  /\ build \in Builds
  /\ tl = [t \in Threads |-> Null]
  /\ wst = [w \in WrapperIds |-> "unborn"]
  /\ caches = [w \in WrapperIds |-> <<>>]
  /\ object = [w \in WrapperIds |-> 0]
  /\ cache = [t \in Threads |-> [c \in Slots |-> Null]]
  /\ check = [t \in Threads |-> [g \in Slows |-> NoSlot]]
  /\ stale = [t \in Threads |-> [g \in Slows |-> FALSE]]
  /\ nodeSt = [t \in Threads |-> [g \in Slows |-> "unborn"]]
  /\ nodeSlot = [t \in Threads |-> [g \in Slows |-> NoSlot]]
  /\ made = [t \in Threads |-> 0]
  /\ failed = [t \in Threads |-> 0]
  /\ dtors = [t \in Threads |-> 0]
  /\ aborted = FALSE
  /\ fault = FALSE
  /\ phase = [t \in Threads |-> "running"]
  /\ ret = [t \in Threads |-> [s \in Sites |-> Null]]

\* A thread runs code until its teardown has completed, and nothing runs
\* once the process has aborted.
Active(t) == phase[t] # "exited" /\ ~aborted

\* Thread t calls get() at call site s; ok is what Make does if it is
\* invoked.  A call site runs code of the thread, also during teardown
\* (destructors of other thread-local objects may call get()).
DoGet(t, s, ok) ==
  /\ Active(t)
  /\ LET r == Get(St, t, s, ok) IN
       /\ r.exc # "capped"
       /\ Install(r.st)
       /\ ret' = IF r.exc = "none" THEN [ret EXCEPT ![t][s] = r.ref] ELSE ret
  /\ UNCHANGED <<build, phase>>

\* The caller increments the counter T through the reference it holds.
Increment(t, s) ==
  /\ Active(t)
  /\ ret[t][s] # Null
  /\ wst[ret[t][s]] = "live"
  /\ object[ret[t][s]] < MaxVal
  /\ object' = [object EXCEPT ![ret[t][s]] = @ + 1]
  /\ UNCHANGED <<build, tl, wst, caches, cache, check, stale, nodeSt,
                 nodeSlot, made, failed, dtors, aborted, fault, phase, ret>>

\* The thread starts to exit: its thread-local objects get destroyed, in
\* an order the program does not control.
ThreadExitBegin(t) ==
  /\ Active(t)
  /\ phase[t] = "running"
  /\ phase' = [phase EXCEPT ![t] = "exiting"]
  /\ UNCHANGED <<build, ret>>
  /\ UNCHANGED codeVars

\* The destructor of the thread_local node of getSlow instance g.
DoNodeDtor(t, g) ==
  /\ Active(t)
  /\ phase[t] = "exiting"
  /\ nodeSt[t][g] = "live"
  /\ Install(NodeDtor(St, <<t, g>>))
  /\ UNCHANGED <<build, phase, ret>>

\* The ThreadLocal destroys the thread's Wrapper.
DoWrapperDtor(t) ==
  /\ Active(t)
  /\ phase[t] = "exiting"
  /\ tl[WrapperKey(t)] # Null
  /\ Install(WrapperDtor(St, t))
  /\ UNCHANGED <<build, phase, ret>>

\* The teardown of the thread's storage has completed: every thread-local
\* object the thread constructed has been destroyed.
ThreadExitEnd(t) ==
  /\ Active(t)
  /\ phase[t] = "exiting"
  /\ tl[WrapperKey(t)] = Null
  /\ \A g \in Slows : nodeSt[t][g] # "live"
  /\ phase' = [phase EXCEPT ![t] = "exited"]
  /\ UNCHANGED <<build, ret>>
  /\ UNCHANGED codeVars

Next ==
  \/ \E t \in Threads, s \in Sites, ok \in BOOLEAN : DoGet(t, s, ok)
  \/ \E t \in Threads, s \in Sites : Increment(t, s)
  \/ \E t \in Threads : ThreadExitBegin(t)
  \/ \E t \in Threads, g \in Slows : DoNodeDtor(t, g)
  \/ \E t \in Threads : DoWrapperDtor(t)
  \/ \E t \in Threads : ThreadExitEnd(t)

Spec == Init /\ [][Next]_vars

\* ============================================================== claims
Live(st, w) == w # Null /\ st.wst[w] = "live"

\* Thread t has called get() before: every first call runs getSlow(),
\* which initialises `check`.
Called(t) == \E g \in Slows : check[t][g] # NoSlot

\* Something of thread t has been destroyed.
TornDown(t) ==
  \/ \E w \in IdsOf(t) : wst[w] = "destroyed"
  \/ \E g \in Slows : nodeSt[t][g] = "destroyed"

\* The reference r a get() of thread t returned, in the state st it left:
\* a constructed, not destroyed T in the Wrapper the thread now has.
GoodRef(st, t, r) ==
  /\ Live(st, r)
  /\ r \in IdsOf(t)
  /\ st.tl[t] = r
  /\ ~st.fault

\* C1: in every reachable state (after any sequence of get() calls, node
\* destructions and Wrapper destructions), a get() that returns yields a
\* non-null reference to a T that is constructed, not destroyed and held by
\* the calling thread's current Wrapper.
C1_GetReturnsLiveObject ==
  \A t \in Threads, s \in Sites, ok \in BOOLEAN :
    Active(t) =>
      LET r == Get(St, t, s, ok) IN
        r.exc = "none" => GoodRef(r.st, t, r.ref)

\* A get() has returned the re-created Wrapper of a thread whose first
\* Wrapper and whose node are both destroyed.
C1_Witness ==
  \E t \in Threads, s \in Sites :
    /\ nodeSt[t][slowOf(s)] = "destroyed"
    /\ \E w \in IdsOf(t) : wst[w] = "destroyed"
    /\ ret[t][s] # Null
    /\ ret[t][s] = tl[t]
    /\ wst[ret[t][s]] = "live"

\* C2: at one call site of one thread, while the Wrapper whose T an earlier
\* get() returned is not destroyed, every get() that returns yields that
\* same reference, also after the call site's node has been destroyed.
C2_SameReferenceWhileWrapperLives ==
  \A t \in Threads, s \in Sites, ok \in BOOLEAN :
    (Active(t) /\ Live(St, ret[t][s])) =>
      LET r == Get(St, t, s, ok) IN
        r.exc = "none" => r.ref = ret[t][s]

\* The call site's node is destroyed, its Wrapper is alive and get() (now
\* on the slow path) returns the reference it returned before.
C2_Witness ==
  \E t \in Threads, s \in Sites :
    /\ Active(t)
    /\ nodeSt[t][slowOf(s)] = "destroyed"
    /\ cache[t][cacheOf(s)] = Null
    /\ Live(St, ret[t][s])
    /\ Get(St, t, s, TRUE).exc = "none"
    /\ Get(St, t, s, TRUE).ref = ret[t][s]

LiveCount(t) == IF tl[t] # Null THEN 1 ELSE 0

\* C3 as stated: a thread that has called get() has invoked the
\* construction policy exactly once.
C3_Original_ExactlyOncePerThread ==
  \A t \in Threads : Called(t) => made[t] = 1

\* C3 amended: a thread that has called get() has invoked the policy at
\* least once, and exactly once for each Wrapper it constructed (the live
\* one and those destroyed) plus once for each failed attempt; so exactly
\* once while no attempt has failed and no Wrapper of the thread has been
\* destroyed, whatever the number of calls and call sites.
C3_OncePerWrapperConstructed ==
  \A t \in Threads :
    /\ made[t] = failed[t] + dtors[t] + LiveCount(t)
    /\ made[t] - failed[t] = Cardinality({w \in IdsOf(t) : wst[w] # "unborn"})
    /\ Called(t) => made[t] >= 1
    /\ (Called(t) /\ failed[t] = 0 /\ dtors[t] = 0) => made[t] = 1

\* Every thread has been served at every call site, each by one invocation.
C3_Witness ==
  /\ build = "split_all"
  /\ \A t \in Threads :
       /\ made[t] = 1
       /\ \A s \in Sites : ret[t][s] # Null /\ ret[t][s] = tl[t]

\* What belongs to thread u: its ThreadLocal slot, its thread_locals, its
\* nodes and the Wrappers it constructed.
ViewOf(st, u) ==
  [tl |-> st.tl[u], cache |-> st.cache[u], check |-> st.check[u],
   stale |-> st.stale[u], nodeSt |-> st.nodeSt[u],
   nodeSlot |-> st.nodeSlot[u],
   wrappers |-> [w \in IdsOf(u) |->
                   <<st.wst[w], st.caches[w], st.object[w]>>]]

\* C4: two threads never get the same object, and in every reachable
\* state (that is, under every interleaving) an access, a node destruction
\* or a Wrapper destruction of one thread leaves unchanged the T, Wrapper,
\* nodes, cache pointers and stale flags of every other thread.
C4_ThreadsAreIndependent ==
  /\ \A t, u \in Threads, s, s2 \in Sites :
       (t # u /\ ret[t][s] # Null) => ret[t][s] # ret[u][s2]
  /\ \A t \in Threads :
       \A w \in IdsOf(t) : Range(caches[w]) \subseteq {t} \X Slows
  /\ \A t, u \in Threads :
       (t # u /\ Active(t)) =>
         /\ \A s \in Sites, ok \in BOOLEAN :
              ViewOf(Get(St, t, s, ok).st, u) = ViewOf(St, u)
         /\ \A g \in Slows :
              nodeSt[t][g] = "live" =>
                ViewOf(NodeDtor(St, <<t, g>>), u) = ViewOf(St, u)
         /\ tl[WrapperKey(t)] # Null =>
              ViewOf(WrapperDtor(St, t), u) = ViewOf(St, u)

\* Thread 1 has been served and has completed its teardown while thread 2
\* holds its own, untouched, cached Wrapper.
C4_Witness ==
  /\ phase[1] = "exited"
  /\ dtors[1] >= 1
  /\ ret[1][1] # Null
  /\ tl[2] # Null
  /\ cache[2][1] = tl[2]
  /\ ret[2][1] = tl[2]
  /\ ~stale[2][1]

\* C5: on one thread, a get() at one call site returns the reference that
\* a get() at another call site returned (as long as that one's Wrapper is
\* alive), so both read and write the same T: the value written through
\* one is the value read through the other.
C5_CallSitesShareTheObject ==
  \A t \in Threads, s1, s2 \in Sites :
    (s1 # s2 /\ Live(St, ret[t][s1])) =>
      /\ Live(St, ret[t][s2]) => ret[t][s2] = ret[t][s1]
      /\ \A ok \in BOOLEAN :
           Active(t) =>
             LET r == Get(St, t, s2, ok) IN
               r.exc = "none" =>
                 /\ r.ref = ret[t][s1]
                 /\ r.st.object[r.ref] = object[ret[t][s1]]

\* Two call sites with their own cache and node hold the same reference
\* and the counter behind it has been incremented.
C5_Witness ==
  \E t \in Threads :
    /\ build = "split_all"
    /\ Live(St, ret[t][1])
    /\ ret[t][2] = ret[t][1]
    /\ cache[t][1] = ret[t][1]
    /\ cache[t][2] = ret[t][1]
    /\ object[ret[t][1]] = 1

\* C6: whatever the order in which a thread's Wrapper and nodes have been
\* and are destroyed, no step has read or written a destroyed Wrapper or
\* node, no destructor that can run next does, and the next get() on the
\* thread does not either and, when it returns, returns a live T, of a
\* newly constructed Wrapper if the thread's Wrapper was destroyed.
C6_DestructionOrderIndependent ==
  /\ ~fault
  /\ \A t \in Threads :
       Active(t) =>
         /\ \A g \in Slows :
              nodeSt[t][g] = "live" => ~NodeDtor(St, <<t, g>>).fault
         /\ tl[WrapperKey(t)] # Null => ~WrapperDtor(St, t).fault
         /\ TornDown(t) =>
              \A s \in Sites, ok \in BOOLEAN :
                LET r == Get(St, t, s, ok) IN
                  /\ ~r.st.fault
                  /\ r.exc = "none" =>
                       /\ GoodRef(r.st, t, r.ref)
                       /\ tl[t] = Null => wst[r.ref] = "unborn"

\* One thread's Wrapper was destroyed before its node (the live node is
\* stale) and a get() has re-created the Wrapper; another thread's node was
\* destroyed before its Wrapper.
C6_Witness ==
  \E t, u \in Threads, s \in Sites :
    /\ nodeSt[t][slowOf(s)] = "live"
    /\ stale[t][slowOf(s)]
    /\ ret[t][s] # Null /\ ret[t][s] = tl[t]
    /\ dtors[t] = 1
    /\ \E g \in Slows : nodeSt[u][g] = "destroyed"
    /\ dtors[u] = 0
    /\ tl[u] # Null

NoNodeLinked(st, t) == \A w \in IdsOf(t) : st.caches[w] = <<>>

\* C7 as stated: a get() in which the policy fails leaves no Wrapper, the
\* cache pointer null, the stale flag false and no node linked.
C7_Original_FailureLeavesFlagFalse ==
  \A t \in Threads, s \in Sites :
    Active(t) =>
      LET r == Get(St, t, s, FALSE) IN
        r.exc = "throw" =>
          /\ r.st.tl[t] = Null
          /\ r.st.cache[t][cacheOf(s)] = Null
          /\ ~r.st.stale[t][slowOf(s)]
          /\ NoNodeLinked(r.st, t)

\* C7 amended: a get() in which the policy fails reports the failure and
\* leaves the thread as it was before the call (apart from `check` and the
\* count of invocations): no Wrapper, the cache pointer null, the stale
\* flag with the value it had (false unless something of the call site was
\* destroyed before), no node constructed or linked; and the next get()
\* on the thread invokes the policy again and, if it returns, returns a
\* constructed T.
C7_FailureLeavesStateUnchanged ==
  \A t \in Threads, s \in Sites :
    Active(t) =>
      LET r == Get(St, t, s, FALSE) IN
        r.exc = "throw" =>
          /\ tl[t] = Null
          /\ r.st = [St EXCEPT !.check = r.st.check,
                               !.made[t] = @ + 1,
                               !.failed[t] = @ + 1]
          /\ r.st.tl[t] = Null
          /\ \A w \in IdsOf(t) : r.st.wst[w] # "live"
          /\ r.st.cache[t][cacheOf(s)] = Null
          /\ r.st.stale[t][slowOf(s)] = stale[t][slowOf(s)]
          /\ (~TornDown(t)) => ~r.st.stale[t][slowOf(s)]
          /\ NoNodeLinked(r.st, t)
          /\ \A s2 \in Sites, ok2 \in BOOLEAN :
               LET r2 == Get(r.st, t, s2, ok2) IN
                 /\ r2.exc \in {"none", "throw"} =>
                      r2.st.made[t] = r.st.made[t] + 1
                 /\ r2.exc = "none" => GoodRef(r2.st, t, r2.ref)

\* The policy has failed on a thread that has nothing yet (its first
\* get()), and on a thread whose Wrapper had been destroyed before, where
\* the stale flag is true.
C7_Witness ==
  \E t, u \in Threads :
    /\ failed[t] = 1
    /\ made[t] = 1
    /\ tl[t] = Null
    /\ \A g \in Slows : nodeSt[t][g] = "unborn" /\ ~stale[t][g]
    /\ \A c \in Slots : cache[t][c] = Null
    /\ Called(t)
    /\ failed[u] = 1
    /\ made[u] = 2
    /\ tl[u] = Null
    /\ \E g \in Slows : nodeSt[u][g] = "live" /\ stale[u][g]

\* C8: once a thread's teardown has completed, all its Wrappers and nodes
\* are destroyed, T has been destroyed as many times as it was constructed
\* on the thread, and no cache pointer and no Wrapper's list refers to any
\* of them.
C8_NothingSurvivesThreadExit ==
  \A t \in Threads :
    phase[t] = "exited" =>
      /\ tl[t] = Null
      /\ \A w \in IdsOf(t) : wst[w] # "live" /\ caches[w] = <<>>
      /\ \A g \in Slows : nodeSt[t][g] # "live"
      /\ dtors[t] = made[t] - failed[t]
      /\ dtors[t] = Cardinality({w \in IdsOf(t) : wst[w] = "destroyed"})
      /\ \A u \in Threads, c \in Slots : cache[u][c] \notin IdsOf(t)
      /\ \A w \in WrapperIds, g \in Slows : <<t, g>> \notin Range(caches[w])

\* A thread has exited after constructing and destroying two Wrappers and
\* a node.
C8_Witness ==
  \E t \in Threads :
    /\ phase[t] = "exited"
    /\ dtors[t] = 2
    /\ \E g \in Slows : nodeSt[t][g] = "destroyed"

\* C9 as stated: after the first get() on a thread, no get() on that
\* thread reports a construction failure.
C9_Original_FailureOnlyAtFirstGet ==
  \A t \in Threads, s \in Sites :
    (Active(t) /\ Called(t)) => Get(St, t, s, FALSE).exc # "throw"

\* C9 amended: a failing policy surfaces its failure at every get() that
\* has to construct the thread's Wrapper (the first get(), and a later one
\* made while the thread has no Wrapper, after a failure or after the
\* Wrapper's destruction), once for that get(); a get() made while the
\* thread's Wrapper is alive never reports a construction failure.
C9_FailureOnlyWhenConstructing ==
  \A t \in Threads, s \in Sites :
    Active(t) =>
      LET r == Get(St, t, s, FALSE) IN
        /\ r.exc = "throw" =>
             /\ tl[t] = Null
             /\ r.st.failed[t] = failed[t] + 1
             /\ r.st.made[t] = made[t] + 1
        /\ tl[t] # Null =>
             /\ r.exc \in {"none", "abort"}
             /\ r.st.failed = failed
             /\ r.st.made = made
        /\ (tl[t] = Null /\ cache[t][cacheOf(s)] = Null) =>
             r.exc \in {"throw", "abort", "capped"}

\* A get() has reported a failure on a thread that had been served before
\* and whose Wrapper has since been destroyed.
C9_Witness ==
  \E t \in Threads, s \in Sites :
    /\ failed[t] = 1
    /\ dtors[t] = 1
    /\ ret[t][s] # Null
    /\ tl[t] = Null

\* C10: in every reachable state a non-null cache pointer points at a
\* Wrapper that is alive and is the Wrapper of the pointer's thread.
C10_CachePointsAtLiveWrapper ==
  \A t \in Threads, c \in Slots :
    cache[t][c] # Null =>
      /\ wst[cache[t][c]] = "live"
      /\ cache[t][c] \in IdsOf(t)
      /\ tl[t] = cache[t][c]

\* One call site's pointer was nulled by the destruction of the first
\* Wrapper; another call site's pointer holds the second Wrapper.
C10_Witness ==
  \E t \in Threads :
    /\ build = "split_all"
    /\ cache[t][1] = Null
    /\ stale[t][1]
    /\ cache[t][2] # Null
    /\ \E w \in IdsOf(t) : wst[w] = "destroyed"

\* The `cache` instance and the `stale` flag node n is bound to.
SlotOfNode(st, n) == st.cache[n[1]][st.nodeSlot[n[1]][n[2]]]
FlagOfNode(st, n) == st.stale[n[1]][n[2]]

\* C11: when ~Wrapper() reaches object.~T(), the T is not destroyed yet,
\* every node that was linked to the Wrapper has its cache pointer null and
\* its stale flag true, the list is empty and no cache pointer holds the
\* Wrapper's address; the destruction of T changes none of that.
C11_NodesClearedBeforeObjectDies ==
  \A t \in Threads :
    (Active(t) /\ tl[t] # Null) =>
      LET w == tl[t]
          atDtor == WrapperDtorCleared(St, w)
          after == WrapperDtor(St, t)
      IN /\ atDtor.wst[w] = "live"
         /\ \A n \in Range(caches[w]) :
              SlotOfNode(atDtor, n) = Null /\ FlagOfNode(atDtor, n)
         /\ atDtor.caches[w] = <<>>
         /\ PointingAt(atDtor, w) = {}
         /\ after.wst[w] = "destroyed"
         /\ after.cache = atDtor.cache
         /\ after.stale = atDtor.stale
         /\ after.caches = atDtor.caches

\* A Wrapper with two linked nodes has been destroyed: both nodes are alive,
\* cleared and stale.
C11_Witness ==
  \E t \in Threads :
    /\ build = "split_all"
    /\ dtors[t] = 1
    /\ tl[t] = Null
    /\ \A g \in Slows :
         nodeSt[t][g] = "live" /\ stale[t][g] /\ cache[t][g] = Null

\* The states of a call site s of thread t (of the `cache` and `stale` it
\* uses): unresolved, cached-valid, cached-stale.
Unresolved(st, t, s) ==
  /\ st.nodeSt[t][slowOf(s)] = "unborn"
  /\ st.cache[t][cacheOf(s)] = Null
  /\ ~st.stale[t][slowOf(s)]
CachedValid(st, t, s) ==
  /\ st.cache[t][cacheOf(s)] # Null
  /\ ~st.stale[t][slowOf(s)]
CachedStale(st, t, s) == st.stale[t][slowOf(s)]

\* C12 as stated: a get() at a cached-stale call site leaves the call site
\* cached-valid.
C12_Original_StaleBecomesValid ==
  \A t \in Threads, s \in Sites, ok \in BOOLEAN :
    (Active(t) /\ CachedStale(St, t, s)) =>
      LET r == Get(St, t, s, ok) IN
        r.exc = "none" => CachedValid(r.st, t, s)

\* C12 amended: a get() at a cached-stale call site does not use the cached
\* pointer (which is null) and returns the Wrapper resolved through the
\* thread's storage, a newly constructed one if the thread has none; the
\* call site stays cached-stale: the flag stays true, the cache pointer
\* stays null and no node is linked, so every later get() takes the slow
\* path again.
C12_StaleResolvesThroughStorage ==
  \A t \in Threads, s \in Sites, ok \in BOOLEAN :
    (Active(t) /\ CachedStale(St, t, s)) =>
      LET r == Get(St, t, s, ok) IN
        /\ cache[t][cacheOf(s)] = Null
        /\ r.exc = "none" =>
             /\ GoodRef(r.st, t, r.ref)
             /\ tl[t] # Null => (r.ref = tl[t] /\ r.st = St)
             /\ tl[t] = Null => (wst[r.ref] = "unborn" /\ ok)
             /\ CachedStale(r.st, t, s)
             /\ r.st.cache = cache
             /\ r.st.stale = stale
             /\ r.st.nodeSt = nodeSt
             /\ r.st.caches[r.ref] = <<>> \/ r.st.caches = caches

\* A get() at a stale call site (its node alive, cleared by ~Wrapper) has
\* re-created the Wrapper; the call site is still stale.
C12_Witness ==
  \E t \in Threads, s \in Sites :
    /\ nodeSt[t][slowOf(s)] = "live"
    /\ stale[t][slowOf(s)]
    /\ cache[t][cacheOf(s)] = Null
    /\ dtors[t] = 1
    /\ tl[t] # Null
    /\ ret[t][s] = tl[t]
    /\ caches[tl[t]] = <<>>

\* C13: a get() that returns at an unresolved call site (its first
\* successful get()) leaves the call site cached-valid: its node is
\* constructed and linked, at the front, into the list of the thread's
\* Wrapper, its cache pointer holds that Wrapper's address, its stale flag
\* is false and the reference returned is that Wrapper's T.
C13_FirstGetCachesTheWrapper ==
  \A t \in Threads, s \in Sites, ok \in BOOLEAN :
    (Active(t) /\ Unresolved(St, t, s)) =>
      LET r == Get(St, t, s, ok)
          g == slowOf(s)
          c == cacheOf(s)
      IN r.exc = "none" =>
           /\ r.st.nodeSt[t][g] = "live"
           /\ r.st.nodeSlot[t][g] = c
           /\ r.st.tl[t] = r.ref
           /\ GoodRef(r.st, t, r.ref)
           /\ r.st.caches[r.ref] # <<>>
           /\ Head(r.st.caches[r.ref]) = <<t, g>>
           /\ \A w \in WrapperIds :
                w # r.ref => <<t, g>> \notin Range(r.st.caches[w])
           /\ r.st.cache[t][c] = r.ref
           /\ CachedValid(r.st, t, s)

\* The second call site of a thread has made its first get() after the
\* thread's first Wrapper was destroyed: its node is linked to the second
\* Wrapper, which its cache pointer holds.
C13_Witness ==
  \E t \in Threads :
    /\ build = "split_all"
    /\ stale[t][1]
    /\ \E w \in IdsOf(t) : wst[w] = "destroyed"
    /\ nodeSt[t][2] = "live"
    /\ ~stale[t][2]
    /\ tl[t] # Null
    /\ cache[t][2] = tl[t]
    /\ ret[t][2] = tl[t]
    /\ caches[tl[t]] = <<<<t, 2>>>>

\* C14: in every reachable state a true stale flag has a null cache pointer
\* beside it, so the fast path of get(), which tests the pointer alone,
\* is taken only while the flag is false; a get() on the fast path
\* returns the cached pointer, resolves nothing and changes no state.
C14_StaleImpliesNullCache ==
  /\ \A t \in Threads, g \in Slows :
       stale[t][g] =>
         /\ nodeSlot[t][g] # NoSlot
         /\ cache[t][nodeSlot[t][g]] = Null
  /\ \A t \in Threads, s \in Sites :
       (Active(t) /\ cache[t][cacheOf(s)] # Null) =>
         /\ ~stale[t][slowOf(s)]
         /\ nodeSlot[t][slowOf(s)] = cacheOf(s)
         /\ \A ok \in BOOLEAN :
              Get(St, t, s, ok) = Out(St, cache[t][cacheOf(s)], "none")

\* One thread's call site is stale with a null pointer (and has been served
\* on the slow path since); another thread's call site is served on the
\* fast path and its counter has been incremented.
C14_Witness ==
  \E t, u \in Threads, s \in Sites :
    /\ stale[t][slowOf(s)]
    /\ cache[t][cacheOf(s)] = Null
    /\ tl[t] # Null
    /\ ret[t][s] = tl[t]
    /\ cache[u][cacheOf(s)] # Null
    /\ ret[u][s] = cache[u][cacheOf(s)]
    /\ object[ret[u][s]] = 1
    /\ Get(St, u, s, FALSE).exc = "none"

Nodes == Threads \X Slows

\* The live nodes whose cache pointer holds &w.
NodesCaching(st, w) ==
  {n \in Nodes : st.nodeSt[n[1]][n[2]] = "live" /\ SlotOfNode(st, n) = w}

\* C15: in every reachable state the list of a live Wrapper holds exactly
\* the live nodes whose cache pointer points at it, each once; a Wrapper
\* that is not alive has an empty list; so a node is in at most one list,
\* and a destroyed node or a node whose pointer is null is in none.
C15_ListIsTheCachingNodes ==
  /\ \A w \in WrapperIds :
       /\ wst[w] = "live" => Range(caches[w]) = NodesCaching(St, w)
       /\ wst[w] # "live" => caches[w] = <<>>
       /\ Cardinality(Range(caches[w])) = Len(caches[w])
  /\ \A n \in Nodes :
       /\ Cardinality({w \in WrapperIds : n \in Range(caches[w])}) <= 1
       /\ (nodeSt[n[1]][n[2]] # "live"
           \/ nodeSlot[n[1]][n[2]] = NoSlot
           \/ SlotOfNode(St, n) = Null) =>
            \A w \in WrapperIds : n \notin Range(caches[w])

\* One thread's Wrapper has two nodes in its list; the other thread's
\* Wrapper has one, after its other node was destroyed.
C15_Witness ==
  \E t, u \in Threads :
    /\ tl[t] # Null
    /\ Len(caches[tl[t]]) = 2
    /\ tl[u] # Null
    /\ Len(caches[tl[u]]) = 1
    /\ \E g \in Slows : nodeSt[u][g] = "destroyed"

\* C16: destroying a node sets the cache pointer it is bound to to null and
\* its stale flag to true and takes that node alone out of the list it is
\* in; the Wrapper, its T and every other node's pointer, flag and link are
\* unchanged.  If the Wrapper had cleared and removed the node before,
\* nothing changes but the node's own end of life.
C16_NodeDtorFrame ==
  \A t \in Threads, g \in Slows :
    (Active(t) /\ nodeSt[t][g] = "live") =>
      LET n == <<t, g>>
          d == NodeDtor(St, n)
      IN /\ SlotOfNode(d, n) = Null
         /\ FlagOfNode(d, n)
         /\ d = [St EXCEPT !.cache[t][nodeSlot[t][g]] = Null,
                           !.stale[t][g] = TRUE,
                           !.caches = [w \in WrapperIds |->
                                         Without(caches[w], n)],
                           !.nodeSt[t][g] = "destroyed"]
         /\ \A w \in WrapperIds :
              /\ Range(d.caches[w]) = Range(caches[w]) \ {n}
              /\ Len(d.caches[w]) >= Len(caches[w]) - 1
         /\ \A m \in Nodes :
              (m # n /\ nodeSt[m[1]][m[2]] = "live") =>
                /\ SlotOfNode(d, m) = SlotOfNode(St, m)
                /\ FlagOfNode(d, m) = FlagOfNode(St, m)
         /\ stale[t][g] => d = [St EXCEPT !.nodeSt[t][g] = "destroyed"]

\* A node has been destroyed while its Wrapper is alive with another node
\* still linked and caching it; on the other thread a node that its
\* Wrapper had cleared has been destroyed.
C16_Witness ==
  \E t, u \in Threads :
    /\ build = "split_all"
    /\ nodeSt[t][1] = "destroyed"
    /\ stale[t][1]
    /\ cache[t][1] = Null
    /\ tl[t] # Null
    /\ caches[tl[t]] = <<<<t, 2>>>>
    /\ cache[t][2] = tl[t]
    /\ ~stale[t][2]
    /\ dtors[t] = 0
    /\ dtors[u] = 1
    /\ \E g \in Slows : nodeSt[u][g] = "destroyed"
    /\ \A g \in Slows : nodeSt[u][g] = "live" => stale[u][g]

\* C17: in every step a stale flag that changes goes from false to true,
\* and the step is the destruction of the flag's node or the destruction
\* of the Wrapper that node is linked to; no get(), on the fast or the
\* slow path, returning or throwing, writes a flag in any reachable state.
C17_StaleOnlySetByDestruction ==
  [][/\ \A t \in Threads, g \in Slows :
          stale'[t][g] # stale[t][g] =>
            /\ ~stale[t][g]
            /\ stale'[t][g]
            /\ nodeSt[t][g] = "live"
            /\ \/ /\ DoNodeDtor(t, g)
                  /\ nodeSt'[t][g] = "destroyed"
               \/ /\ DoWrapperDtor(t)
                  /\ <<t, g>> \in Range(caches[tl[t]])
                  /\ wst'[tl[t]] = "destroyed"
     /\ \A t \in Threads, s \in Sites, ok \in BOOLEAN :
          DoGet(t, s, ok) => stale' = stale
     /\ \A t \in Threads, s \in Sites, ok \in BOOLEAN :
          Active(t) => Get(St, t, s, ok).st.stale = stale
    ]_vars

\* Flags have been set both ways: one thread's flag by the destruction of
\* its node under a live Wrapper, the other thread's by the destruction of
\* its Wrapper under a live node; each thread has called get() since.
C17_Witness ==
  \E t, u \in Threads, s \in Sites :
    /\ nodeSt[t][slowOf(s)] = "destroyed"
    /\ stale[t][slowOf(s)]
    /\ dtors[t] = 0
    /\ Live(St, ret[t][s])
    /\ nodeSt[u][slowOf(s)] = "live"
    /\ stale[u][slowOf(s)]
    /\ dtors[u] = 1
    /\ Live(St, ret[u][s])

LiveWrappersOf(st, t) == {w \in IdsOf(t) : st.wst[w] = "live"}

\* C18: in every reachable state a thread has at most one live Wrapper
\* (and so one live T), the one its ThreadLocal holds, and a get() that
\* constructs a Wrapper, the first or a re-creation after a destruction,
\* leaves exactly one.
C18_AtMostOneLiveWrapper ==
  \A t \in Threads :
    /\ Cardinality(LiveWrappersOf(St, t)) <= 1
    /\ LiveWrappersOf(St, t) = {tl[t]} \ {Null}
    /\ \A s \in Sites, ok \in BOOLEAN :
         Active(t) =>
           LET r == Get(St, t, s, ok) IN
             /\ Cardinality(LiveWrappersOf(r.st, t)) <= 1
             /\ r.exc = "none" => LiveWrappersOf(r.st, t) = {r.ref}

\* A thread's Wrapper has been re-created after the destruction of its
\* first one, and is the only live one.
C18_Witness ==
  \E t \in Threads :
    /\ dtors[t] = 1
    /\ made[t] - failed[t] = 2
    /\ tl[t] # Null
    /\ LiveWrappersOf(St, t) = {tl[t]}

\* C19: a Wrapper comes to hold its T in one step, by one successful
\* invocation of the policy, and never a second time; T's destructor runs
\* only on a Wrapper that holds a T, once, ending it; a failed invocation
\* constructs no Wrapper and is followed by no destruction of one.
C19_ConstructedOnceDestroyedOnce ==
  [][\A t \in Threads :
       /\ \A w \in IdsOf(t) :
            wst'[w] # wst[w] =>
              \/ /\ wst[w] = "unborn" /\ wst'[w] = "live"
                 /\ made'[t] = made[t] + 1
                 /\ failed'[t] = failed[t]
                 /\ dtors'[t] = dtors[t]
                 /\ tl'[t] = w
              \/ /\ wst[w] = "live" /\ wst'[w] = "destroyed"
                 /\ dtors'[t] = dtors[t] + 1
                 /\ made'[t] = made[t]
                 /\ tl[t] = w
       /\ made'[t] # made[t] =>
            /\ made'[t] = made[t] + 1
            /\ \/ /\ failed'[t] = failed[t]
                  /\ Cardinality({w \in IdsOf(t) : wst'[w] # wst[w]}) = 1
               \/ /\ failed'[t] = failed[t] + 1
                  /\ wst' = wst
                  /\ tl' = tl
                  /\ dtors' = dtors
       /\ dtors'[t] # dtors[t] =>
            /\ dtors'[t] = dtors[t] + 1
            /\ Cardinality({w \in IdsOf(t) : wst'[w] # wst[w]}) = 1
       /\ dtors'[t] <= made'[t] - failed'[t]
    ]_vars

\* A thread has constructed and destroyed two Wrappers and seen one
\* failure of the policy.
C19_Witness ==
  \E t \in Threads :
    /\ made[t] = 3
    /\ failed[t] = 1
    /\ dtors[t] = 2
    /\ \A w \in IdsOf(t) : wst[w] = "destroyed"

\* C20: a get() constructs the node of its call site only while that node
\* has never been constructed, so a node is constructed at most once per
\* (call site, thread); once the node has been destroyed its stale flag is
\* true and its cache pointer null, and a get() at that call site
\* constructs no node, links none, does not read the destroyed node (the
\* flag is tested first), leaves the cache pointer null and, when it
\* returns, returns the Wrapper the thread's storage holds.
C20_DestroyedNodeIsNeverRebuilt ==
  /\ ~fault
  /\ \A t \in Threads, g \in Slows :
       nodeSt[t][g] = "destroyed" =>
         /\ stale[t][g]
         /\ nodeSlot[t][g] # NoSlot
         /\ cache[t][nodeSlot[t][g]] = Null
         /\ \A w \in WrapperIds : <<t, g>> \notin Range(caches[w])
  /\ \A t \in Threads, s \in Sites, ok \in BOOLEAN :
       Active(t) =>
         LET g == slowOf(s)
             c == cacheOf(s)
             r == Get(St, t, s, ok)
         IN
           /\ r.st.nodeSt[t][g] # nodeSt[t][g] =>
                /\ nodeSt[t][g] = "unborn"
                /\ r.st.nodeSt[t][g] = "live"
           /\ \A h \in Slows \ {g} : r.st.nodeSt[t][h] = nodeSt[t][h]
           /\ nodeSt[t][g] = "destroyed" =>
                /\ cache[t][c] = Null
                /\ r.st.nodeSt = nodeSt
                /\ r.st.nodeSlot = nodeSlot
                /\ r.st.stale = stale
                /\ r.st.cache = cache
                /\ r.st.caches = caches
                /\ ~r.st.fault
                /\ r.exc = "none" =>
                     /\ r.ref = r.st.tl[t]
                     /\ GoodRef(r.st, t, r.ref)
                     /\ r.st.tl[t] = tl[t] \/ tl[t] = Null

\* A call site's node has been destroyed, the thread's first Wrapper too,
\* and a get() at that call site has re-created the Wrapper through the
\* storage; the pointer is null, no node is linked, and the next get()
\* there returns that Wrapper again.
C20_Witness ==
  \E t \in Threads, s \in Sites :
    /\ nodeSt[t][slowOf(s)] = "destroyed"
    /\ \A g \in Slows : nodeSt[t][g] # "live"
    /\ dtors[t] = 1
    /\ tl[t] # Null
    /\ wst[tl[t]] = "live"
    /\ ret[t][s] = tl[t]
    /\ cache[t][cacheOf(s)] = Null
    /\ caches[tl[t]] = <<>>
    /\ Get(St, t, s, TRUE) = Out(St, tl[t], "none")

====
